---- MODULE Spec2Model ----
(***************************************************************************)
(* Model of @meteoric/core: the Option type in its three bundled versions  *)
(*   "errors.ts" : src/src/errors.ts   (abstract class OptionMethods)      *)
(*   "option.ts" : src/src/option.ts   (interface OptionMethods, Some/None *)
(*                                      each with its own methods)         *)
(*   "part_001"  : src/unnamed/part_001 (reduced surface, field `some`)    *)
(* A client loads the modules, builds Options with some / none and calls   *)
(* their methods with callbacks drawn from a small set.  Objects live in a *)
(* heap so that identity (===) and structural equality (toStrictEqual) are *)
(* distinct notions.                                                       *)
(***************************************************************************)
EXTENDS Integers, Sequences, FiniteSets, TLC

VARIABLES mod, heap, cur, last, prev, steps, applied

vars == <<mod, heap, cur, last, prev, steps, applied>>

\* ------------------------------------------------------------------ bounds
MaxSteps == 3
MaxNum == 1

\* ------------------------------------------------------- JavaScript values
Num(n) == [t |-> "number", v |-> n]
NaN == [t |-> "nan", v |-> 0]
Null == [t |-> "null", v |-> 0]
Undefined == [t |-> "undefined", v |-> 0]
Bool(b) == [t |-> "boolean", v |-> IF b THEN 1 ELSE 0]
Ref(a) == [t |-> "ref", v |-> a]
\* a property the object does not have
Absent == [t |-> "absent", v |-> 0]

Truthy(x) == x \notin {Bool(FALSE), Null, Undefined, NaN, Num(0), Absent}

ToNumber(x) ==
  CASE x.t = "number" -> x
    [] x.t = "null" -> Num(0)
    [] x.t = "boolean" -> Num(x.v)
    [] OTHER -> NaN

TypeofNumber(x) == x.t \in {"number", "nan"}

\* ---------------------------------------------------------------- modules
Modules == <<"errors.ts", "option.ts", "part_001">>

ModuleSet == {Modules[i] : i \in DOMAIN Modules}

ModuleIndex(m) == CHOOSE i \in DOMAIN Modules : Modules[i] = m

\* ------------------------------------------------------------------ errors
NoError == [cls |-> "", name |-> "", message |-> "", protos |-> {}]

JsError(message) ==
  [cls |-> "Error", name |-> "Error", message |-> message, protos |-> {"Error"}]

new_OptionExtractError(message) ==
  [JsError(message) EXCEPT !.cls = "OptionExtractError",
                           !.name = "OptionExtractError",
                           !.protos = {"OptionExtractError", "Error"}]

InstanceOf(e, C) == C \in e.protos

\* --------------------------------------------------- the execution context
\* st = [mod, heap, calls, ret, thrown]: the module the client imported, the
\* heap, the callbacks the library has invoked so far in this call, the value
\* returned and the error thrown.
Return(st, x) == [st EXCEPT !.ret = x]

Throw(st, e) == [st EXCEPT !.ret = Absent, !.thrown = e]

Alloc(st, obj) ==
  [st EXCEPT !.heap = Append(@, obj), !.ret = Ref(Len(st.heap) + 1)]

Get(st, this) == st.heap[this.v]

\* ---------------------------------------------------------- constructors
Some_errors(value) ==
  [mod |-> "errors.ts", cls |-> "Some", some |-> Absent,
   isSome |-> Bool(TRUE), isNone |-> Bool(FALSE), value |-> value]

None_errors ==
  [mod |-> "errors.ts", cls |-> "None", some |-> Absent,
   isSome |-> Bool(FALSE), isNone |-> Bool(TRUE), value |-> Absent]

\* mutant: the constructor sets both flags
Some_option_bothFlags(value) ==
  [mod |-> "option.ts", cls |-> "Some", some |-> Absent,
   isSome |-> Bool(TRUE), isNone |-> Bool(TRUE), value |-> value]

Some_option(value) ==
  [mod |-> "option.ts", cls |-> "Some", some |-> Absent,
   isSome |-> Bool(TRUE), isNone |-> Bool(FALSE), value |-> value]

None_option ==
  [mod |-> "option.ts", cls |-> "None", some |-> Absent,
   isSome |-> Bool(FALSE), isNone |-> Bool(TRUE), value |-> Absent]

Some_part1(value) ==
  [mod |-> "part_001", cls |-> "Some", some |-> Bool(TRUE),
   isSome |-> Absent, isNone |-> Absent, value |-> value]

None_part1 ==
  [mod |-> "part_001", cls |-> "None", some |-> Bool(FALSE),
   isSome |-> Absent, isNone |-> Absent, value |-> Absent]

\* new Some(value), by the module whose class it is
new_Some(st, m, value) ==
  CASE m = "errors.ts" -> Alloc(st, Some_errors(value))
    [] m = "option.ts" -> Alloc(st, Some_option(value))
    [] m = "part_001" -> Alloc(st, Some_part1(value))

\* const none = new None(): built once when the module is loaded
none(m) == Ref(ModuleIndex(m))

LoadedHeap == <<None_errors, None_option, None_part1>>

\* mutant: a null-like value is taken for absence
some_fromNullable(st, value) ==
  IF value \in {Null, Undefined} THEN Return(st, none(st.mod))
                                 ELSE new_Some(st, st.mod, value)

\* const some = (value) => new Some(value)
some(st, value) == new_Some(st, st.mod, value)

\* ------------------------------------------------------------- callbacks
\* A callback is [name, f, g]; f and g name the parts of a composite.
NoFn == [name |-> "", f |-> "", g |-> ""]

Fn(name) == [name |-> name, f |-> "", g |-> ""]

\* x => g(f(x))
Compose(f, g) == [name |-> "compose", f |-> f.name, g |-> g.name]

\* x => f(x).flatMap(g)
Kleisli(f, g) == [name |-> "kleisli", f |-> f.name, g |-> g.name]

\* x => p(x) && q(x)
Conj(p, q) == [name |-> "conj", f |-> p.name, g |-> q.name]

\* (...xs) => f(...xs, last): f with its last argument bound
BindLast(f, bound) == [name |-> "bindLast", f |-> f.name, g |-> "", bound |-> bound]

\* the predicates the client passes
Predicates == {Fn("always"), Fn("never"), Fn("isNumber")}

\* optionPredicate(p), the arrow the helper of part_001 returns for p
OptionPredicate(p) == Fn("optionPredicate(" \o p.name \o ")")

OptionPredicates == {OptionPredicate(p) : p \in Predicates}

PredicateOf(fn) == CHOOSE p \in Predicates : OptionPredicate(p) = fn

RECURSIVE Call(_, _, _)

\* the library invoking a callback it was given: the call is recorded
Invoke(st, fn, args) ==
  Call([st EXCEPT !.calls = Append(@, [fn |-> fn, args |-> args])], fn, args)

\* ------------------------------------------- src/src/errors.ts OptionMethods
\* mutant: the morphism's result is returned without a new Some around it
OptionMethods_map_unwrapped(st, this, morphism) ==
  IF Truthy(Get(st, this).isSome)
  THEN Invoke(st, morphism, <<Get(st, this).value>>)
  ELSE Return(st, none("errors.ts"))

\* mutant: the receiver's payload is overwritten and the receiver returned
OptionMethods_map_inplace(st, this, morphism) ==
  IF Truthy(Get(st, this).isSome)
  THEN LET s1 == Invoke(st, morphism, <<Get(st, this).value>>)
       IN [s1 EXCEPT !.heap[this.v].value = s1.ret, !.ret = this]
  ELSE Return(st, none("errors.ts"))

OptionMethods_map(st, this, morphism) ==
  IF Truthy(Get(st, this).isSome)
  THEN LET s1 == Invoke(st, morphism, <<Get(st, this).value>>)
       IN new_Some(s1, "errors.ts", s1.ret)
  ELSE Return(st, none("errors.ts"))

\* mutant: the arrow's result is put in a new Some, as map does
OptionMethods_flatMap_wrapped(st, this, arrow) ==
  IF Truthy(Get(st, this).isSome)
  THEN LET s1 == Invoke(st, arrow, <<Get(st, this).value>>)
       IN new_Some(s1, "errors.ts", s1.ret)
  ELSE Return(st, none("errors.ts"))

OptionMethods_flatMap(st, this, arrow) ==
  IF Truthy(Get(st, this).isSome)
  THEN Invoke(st, arrow, <<Get(st, this).value>>)
  ELSE Return(st, none("errors.ts"))

\* mutant: the test is inverted: the Some is kept when the predicate fails
OptionMethods_filter_inverted(st, this, predicate) ==
  IF Truthy(Get(st, this).isSome)
  THEN LET s1 == Invoke(st, predicate, <<Get(st, this).value>>)
       IN IF Truthy(s1.ret) THEN Return(s1, none("errors.ts"))
                            ELSE Return(s1, this)
  ELSE Return(st, none("errors.ts"))

\* mutant: the predicate's answer is ignored and every Some is kept
OptionMethods_filter_keeps(st, this, predicate) ==
  IF Truthy(Get(st, this).isSome)
  THEN Return(Invoke(st, predicate, <<Get(st, this).value>>), this)
  ELSE Return(st, none("errors.ts"))

OptionMethods_filter(st, this, predicate) ==
  IF Truthy(Get(st, this).isSome)
  THEN LET s1 == Invoke(st, predicate, <<Get(st, this).value>>)
       IN IF Truthy(s1.ret) THEN Return(s1, this)
                            ELSE Return(s1, none("errors.ts"))
  ELSE Return(st, none("errors.ts"))

\* mutant: this.value ?? defaultValue: a null-like payload yields the default
OptionMethods_safeExtract_nullish(st, this, defaultValue) ==
  IF Get(st, this).value \in {Null, Undefined, Absent}
  THEN Return(st, defaultValue)
  ELSE Return(st, Get(st, this).value)

\* mutant: the default is refused and None raises, as unsafeExtract does
OptionMethods_safeExtract_throwing(st, this, defaultValue) ==
  IF Truthy(Get(st, this).isSome)
  THEN Return(st, Get(st, this).value)
  ELSE Throw(st, new_OptionExtractError(""))

OptionMethods_safeExtract(st, this, defaultValue) ==
  IF Truthy(Get(st, this).isSome)
  THEN Return(st, Get(st, this).value)
  ELSE Return(st, defaultValue)

\* mutant: the thunk is evaluated before the receiver is looked at
OptionMethods_safeExtractThunk_eager(st, this, getDefaultValue) ==
  LET s1 == Invoke(st, getDefaultValue, <<>>)
  IN IF Truthy(Get(st, this).isSome) THEN Return(s1, Get(st, this).value)
                                     ELSE s1

OptionMethods_safeExtractThunk(st, this, getDefaultValue) ==
  IF Truthy(Get(st, this).isSome)
  THEN Return(st, Get(st, this).value)
  ELSE Invoke(st, getDefaultValue, <<>>)

OptionMethods_unsafeExtract(st, this, message) ==
  IF Truthy(Get(st, this).isSome)
  THEN Return(st, Get(st, this).value)
  ELSE Throw(st, new_OptionExtractError(message))

\* mutant: the callback is given the payload, as forEach does
OptionMethods_tap_value(st, this, callback) ==
  Return(Invoke(st, callback, <<Get(st, this).value>>), this)

OptionMethods_tap(st, this, callback) ==
  Return(Invoke(st, callback, <<this>>), this)

\* mutant: the callback is called whatever the receiver is
OptionMethods_forEach_always(st, this, callback) ==
  Return(Invoke(st, callback, <<Get(st, this).value>>), this)

OptionMethods_forEach(st, this, callback) ==
  IF Truthy(Get(st, this).isSome)
  THEN Return(Invoke(st, callback, <<Get(st, this).value>>), this)
  ELSE Return(st, this)

\* mutant: the callback is called on Some instead of None
OptionMethods_tapNone_onSome(st, this, callback) ==
  IF Truthy(Get(st, this).isSome)
  THEN Return(Invoke(st, callback, <<>>), this)
  ELSE Return(st, this)

OptionMethods_tapNone(st, this, callback) ==
  IF Truthy(Get(st, this).isNone)
  THEN Return(Invoke(st, callback, <<>>), this)
  ELSE Return(st, this)

\* ------------------------------------------- src/src/option.ts Some / None
\* mutant: the morphism is applied a second time, to its own result
Some_map_twice(st, this, morphism) ==
  LET s1 == Invoke(st, morphism, <<Get(st, this).value>>)
      s2 == Invoke(s1, morphism, <<s1.ret>>)
  IN new_Some(s2, "option.ts", s2.ret)

Some_map(st, this, morphism) ==
  LET s1 == Invoke(st, morphism, <<Get(st, this).value>>)
  IN new_Some(s1, "option.ts", s1.ret)

\* mutant: the arrow's result is put in a new Some, as map does
Some_flatMap_wrapped(st, this, arrow) ==
  LET s1 == Invoke(st, arrow, <<Get(st, this).value>>)
  IN new_Some(s1, "option.ts", s1.ret)

Some_flatMap(st, this, arrow) == Invoke(st, arrow, <<Get(st, this).value>>)

\* mutant: the test is inverted: the Some is kept when the predicate fails
Some_filter_inverted(st, this, predicate) ==
  LET s1 == Invoke(st, predicate, <<Get(st, this).value>>)
  IN IF Truthy(s1.ret) THEN Return(s1, none("option.ts"))
                       ELSE Return(s1, this)

\* mutant: the predicate's answer is put in a new Some, as map does
Some_filter_mapped(st, this, predicate) ==
  LET s1 == Invoke(st, predicate, <<Get(st, this).value>>)
  IN IF Truthy(s1.ret) THEN new_Some(s1, "option.ts", s1.ret)
                       ELSE Return(s1, none("option.ts"))

\* mutant: a copy of the receiver is returned instead of the receiver
Some_filter_copy(st, this, predicate) ==
  LET s1 == Invoke(st, predicate, <<Get(st, this).value>>)
  IN IF Truthy(s1.ret) THEN new_Some(s1, "option.ts", Get(st, this).value)
                       ELSE Return(s1, none("option.ts"))

Some_filter(st, this, predicate) ==
  LET s1 == Invoke(st, predicate, <<Get(st, this).value>>)
  IN IF Truthy(s1.ret) THEN Return(s1, this)
                       ELSE Return(s1, none("option.ts"))

Some_safeExtract(st, this) == Return(st, Get(st, this).value)

Some_safeExtractThunk(st, this) == Return(st, Get(st, this).value)

Some_unsafeExtract(st, this) == Return(st, Get(st, this).value)

\* mutant: None answers map with a None of its own making
None_map_fresh(st, this) == Alloc(st, None_option)

None_map(st, this) == Return(st, none("option.ts"))

\* mutant: None answers flatMap with a Some of nothing
None_flatMap_some(st, this) == new_Some(st, "option.ts", Undefined)

None_flatMap(st, this) == Return(st, none("option.ts"))

None_filter(st, this) == Return(st, this)

None_safeExtract(st, this, defaultValue) == Return(st, defaultValue)

None_safeExtractThunk(st, this, getDefaultValue) ==
  Invoke(st, getDefaultValue, <<>>)

\* mutant: a plain Error is thrown
None_unsafeExtract_plain(st, this, message) == Throw(st, JsError(message))

None_unsafeExtract(st, this, message) ==
  Throw(st, new_OptionExtractError(message))

\* ------------------------------------------ src/unnamed/part_001 Some / None
\* mutant: the morphism's result is dropped and the payload kept
P1_Some_map_dropped(st, this, morphism) ==
  LET s1 == Invoke(st, morphism, <<Get(st, this).value>>)
  IN new_Some(s1, "part_001", Get(st, this).value)

P1_Some_map(st, this, morphism) ==
  LET s1 == Invoke(st, morphism, <<Get(st, this).value>>)
  IN new_Some(s1, "part_001", s1.ret)

\* mutant: the arrow is given the Some instead of its payload
P1_Some_flatMap_this(st, this, arrow) == Invoke(st, arrow, <<this>>)

P1_Some_flatMap(st, this, arrow) == Invoke(st, arrow, <<Get(st, this).value>>)

P1_Some_safeExtract(st, this) == Return(st, Get(st, this).value)

P1_Some_safeExtractThunk(st, this) == Return(st, Get(st, this).value)

P1_Some_unsafeExtract(st, this) == Return(st, Get(st, this).value)

P1_None_map(st, this) == Return(st, none("part_001"))

P1_None_flatMap(st, this) == Return(st, none("part_001"))

P1_None_safeExtract(st, this, defaultValue) == Return(st, defaultValue)

P1_None_safeExtractThunk(st, this, getDefaultValue) ==
  Invoke(st, getDefaultValue, <<>>)

\* mutant: None answers unsafeExtract with undefined instead of raising
P1_None_unsafeExtract_silent(st, this, message) == Return(st, Undefined)

P1_None_unsafeExtract(st, this, message) ==
  Throw(st, new_OptionExtractError(message))

\* mutant: the predicate is asked twice
optionPredicate_twice(st, predicate, value) ==
  LET s1 == Invoke(st, predicate, <<value>>)
      s2 == Invoke(s1, predicate, <<value>>)
  IN IF Truthy(s2.ret) THEN new_Some(s2, "part_001", value)
                       ELSE Return(s2, none("part_001"))

\* mutant: the value itself is tested instead of the predicate's answer
optionPredicate_truthy(st, predicate, value) ==
  LET s1 == Invoke(st, predicate, <<value>>)
  IN IF Truthy(value) THEN new_Some(s1, "part_001", value)
                      ELSE Return(s1, none("part_001"))

\* optionPredicate(predicate)(value)
optionPredicate(st, predicate, value) ==
  LET s1 == Invoke(st, predicate, <<value>>)
  IN IF Truthy(s1.ret) THEN new_Some(s1, "part_001", value)
                       ELSE Return(s1, none("part_001"))

\* ------------------------------------------------- Result (src/result.ts)
\* The module is imported by tests/result.test.ts; its text is the contract
\* of the specification: success(value), failure(error), a mutually exclusive
\* pair of flags, and map.
Success_result(value) ==
  [mod |-> "result.ts", cls |-> "Success", isSuccess |-> Bool(TRUE),
   isFailure |-> Bool(FALSE), value |-> value, error |-> Absent]

Failure_result(error) ==
  [mod |-> "result.ts", cls |-> "Failure", isSuccess |-> Bool(FALSE),
   isFailure |-> Bool(TRUE), value |-> Absent, error |-> error]

success(st, value) == Alloc(st, Success_result(value))

failure(st, error) == Alloc(st, Failure_result(error))

\* mutant: the morphism is applied to the error of a Failure as well
Result_map_both(st, this, morphism) ==
  IF Truthy(Get(st, this).isSuccess)
  THEN LET s1 == Invoke(st, morphism, <<Get(st, this).value>>)
       IN success(s1, s1.ret)
  ELSE LET s1 == Invoke(st, morphism, <<Get(st, this).error>>)
       IN failure(s1, s1.ret)

\* Success(f(value)) if Success; the same Failure otherwise, f not called
Result_map(st, this, morphism) ==
  IF Truthy(Get(st, this).isSuccess)
  THEN LET s1 == Invoke(st, morphism, <<Get(st, this).value>>)
       IN success(s1, s1.ret)
  ELSE Return(st, this)

\* ------------------------------------------------------- method dispatch
\* this.method(...): the method is found on the class of the receiver.
Methods(o) ==
  CASE o.mod = "errors.ts" ->
         {"map", "flatMap", "filter", "safeExtract", "safeExtractThunk",
          "unsafeExtract", "tap", "forEach", "tapNone"}
    [] o.mod = "option.ts" ->
         {"map", "flatMap", "filter", "safeExtract", "safeExtractThunk",
          "unsafeExtract"}
    [] o.mod = "part_001" ->
         {"map", "flatMap", "safeExtract", "safeExtractThunk", "unsafeExtract"}

IsSomeObject(o) == o.cls = "Some"

map(st, this, morphism) ==
  LET o == Get(st, this) IN
  CASE o.mod = "errors.ts" -> OptionMethods_map(st, this, morphism)
    [] o.mod = "option.ts" /\ IsSomeObject(o) -> Some_map(st, this, morphism)
    [] o.mod = "option.ts" /\ ~IsSomeObject(o) -> None_map(st, this)
    [] o.mod = "part_001" /\ IsSomeObject(o) -> P1_Some_map(st, this, morphism)
    [] o.mod = "part_001" /\ ~IsSomeObject(o) -> P1_None_map(st, this)

flatMap(st, this, arrow) ==
  LET o == Get(st, this) IN
  CASE o.mod = "errors.ts" -> OptionMethods_flatMap(st, this, arrow)
    [] o.mod = "option.ts" /\ IsSomeObject(o) -> Some_flatMap(st, this, arrow)
    [] o.mod = "option.ts" /\ ~IsSomeObject(o) -> None_flatMap(st, this)
    [] o.mod = "part_001" /\ IsSomeObject(o) -> P1_Some_flatMap(st, this, arrow)
    [] o.mod = "part_001" /\ ~IsSomeObject(o) -> P1_None_flatMap(st, this)

filter(st, this, predicate) ==
  LET o == Get(st, this) IN
  CASE o.mod = "errors.ts" -> OptionMethods_filter(st, this, predicate)
    [] o.mod = "option.ts" /\ IsSomeObject(o) -> Some_filter(st, this, predicate)
    [] o.mod = "option.ts" /\ ~IsSomeObject(o) -> None_filter(st, this)

safeExtract(st, this, defaultValue) ==
  LET o == Get(st, this) IN
  CASE o.mod = "errors.ts" -> OptionMethods_safeExtract(st, this, defaultValue)
    [] o.mod = "option.ts" /\ IsSomeObject(o) -> Some_safeExtract(st, this)
    [] o.mod = "option.ts" /\ ~IsSomeObject(o) ->
         None_safeExtract(st, this, defaultValue)
    [] o.mod = "part_001" /\ IsSomeObject(o) -> P1_Some_safeExtract(st, this)
    [] o.mod = "part_001" /\ ~IsSomeObject(o) ->
         P1_None_safeExtract(st, this, defaultValue)

safeExtractThunk(st, this, getDefaultValue) ==
  LET o == Get(st, this) IN
  CASE o.mod = "errors.ts" ->
         OptionMethods_safeExtractThunk(st, this, getDefaultValue)
    [] o.mod = "option.ts" /\ IsSomeObject(o) -> Some_safeExtractThunk(st, this)
    [] o.mod = "option.ts" /\ ~IsSomeObject(o) ->
         None_safeExtractThunk(st, this, getDefaultValue)
    [] o.mod = "part_001" /\ IsSomeObject(o) -> P1_Some_safeExtractThunk(st, this)
    [] o.mod = "part_001" /\ ~IsSomeObject(o) ->
         P1_None_safeExtractThunk(st, this, getDefaultValue)

unsafeExtract(st, this, message) ==
  LET o == Get(st, this) IN
  CASE o.mod = "errors.ts" -> OptionMethods_unsafeExtract(st, this, message)
    [] o.mod = "option.ts" /\ IsSomeObject(o) -> Some_unsafeExtract(st, this)
    [] o.mod = "option.ts" /\ ~IsSomeObject(o) ->
         None_unsafeExtract(st, this, message)
    [] o.mod = "part_001" /\ IsSomeObject(o) -> P1_Some_unsafeExtract(st, this)
    [] o.mod = "part_001" /\ ~IsSomeObject(o) ->
         P1_None_unsafeExtract(st, this, message)

\* ------------------------------------------------- the client's callbacks
Double(x) ==
  LET n == ToNumber(x) IN IF n = NaN THEN NaN ELSE Num(2 * n.v)

\* (...xs) => 1 * xs[0] + 2 * xs[1] + ... : the result depends on the order
RECURSIVE Weighted(_, _)

Weighted(args, i) ==
  IF i = 0 THEN Num(0)
  ELSE LET rest == Weighted(args, i - 1)
           n == ToNumber(args[i])
       IN IF rest = NaN \/ n = NaN THEN NaN ELSE Num(rest.v + i * n.v)

Call(st, fn, args) ==
  CASE fn.name = "id" -> Return(st, args[1])
    [] fn.name = "double" -> Return(st, Double(args[1]))
    [] fn.name = "constNull" -> Return(st, Null)
    [] fn.name = "some" -> some(st, args[1])
    [] fn.name = "constNone" -> Return(st, none(st.mod))
    [] fn.name = "ifNumber" ->
         IF TypeofNumber(args[1]) THEN some(st, args[1])
                                  ELSE Return(st, none(st.mod))
    [] fn.name = "always" -> Return(st, Bool(TRUE))
    [] fn.name = "never" -> Return(st, Bool(FALSE))
    [] fn.name = "isNumber" -> Return(st, Bool(TypeofNumber(args[1])))
    [] fn.name = "zero" -> Return(st, Num(0))
    [] fn.name = "noop" -> Return(st, Undefined)
    [] fn.name = "last" -> Return(st, args[Len(args)])
    [] fn.name = "weighted" -> Return(st, Weighted(args, Len(args)))
    [] fn.name = "compose" ->
         LET s1 == Call(st, Fn(fn.f), args) IN Call(s1, Fn(fn.g), <<s1.ret>>)
    [] fn.name = "conj" ->
         LET s1 == Call(st, Fn(fn.f), args)
         IN IF Truthy(s1.ret) THEN Call(s1, Fn(fn.g), args) ELSE s1
    [] fn \in OptionPredicates -> optionPredicate(st, PredicateOf(fn), args[1])
    [] fn.name = "bindLast" -> Call(st, Fn(fn.f), Append(args, fn.bound))
    [] fn.name = "kleisli" ->
         LET s1 == Call(st, Fn(fn.f), args) IN flatMap(s1, s1.ret, Fn(fn.g))

\* --------------------------------------- src/src/applicative.ts $2 .. $9
\* DollarN(st, morphism, values) is the call $N(morphism)(values): values is
\* destructured by position and morphism invoked with the parts.
MinArity == 2
MaxArity == 9

\* mutant: the two parts of the pair are passed in the opposite order
Dollar2_swapped(st, morphism, values) ==
  LET a == values[1]
      b == values[2]
  IN Invoke(st, morphism, <<b, a>>)

Dollar2(st, morphism, values) ==
  LET a == values[1]
      b == values[2]
  IN Invoke(st, morphism, <<a, b>>)

Dollar3(st, morphism, values) ==
  LET a == values[1][1]
      b == values[1][2]
      c == values[2]
  IN Invoke(st, morphism, <<a, b, c>>)

\* mutant: the innermost pair is taken apart in the opposite order
Dollar4_swapped(st, morphism, values) ==
  LET b == values[1][1][1]
      a == values[1][1][2]
      c == values[1][2]
      d == values[2]
  IN Invoke(st, morphism, <<a, b, c, d>>)

Dollar4(st, morphism, values) ==
  LET a == values[1][1][1]
      b == values[1][1][2]
      c == values[1][2]
      d == values[2]
  IN Invoke(st, morphism, <<a, b, c, d>>)

Dollar5(st, morphism, values) ==
  LET a == values[1][1][1][1]
      b == values[1][1][1][2]
      c == values[1][1][2]
      d == values[1][2]
      e == values[2]
  IN Invoke(st, morphism, <<a, b, c, d, e>>)

Dollar6(st, morphism, values) ==
  LET a == values[1][1][1][1][1]
      b == values[1][1][1][1][2]
      c == values[1][1][1][2]
      d == values[1][1][2]
      e == values[1][2]
      f == values[2]
  IN Invoke(st, morphism, <<a, b, c, d, e, f>>)

Dollar7(st, morphism, values) ==
  LET a == values[1][1][1][1][1][1]
      b == values[1][1][1][1][1][2]
      c == values[1][1][1][1][2]
      d == values[1][1][1][2]
      e == values[1][1][2]
      f == values[1][2]
      g == values[2]
  IN Invoke(st, morphism, <<a, b, c, d, e, f, g>>)

Dollar8(st, morphism, values) ==
  LET a == values[1][1][1][1][1][1][1]
      b == values[1][1][1][1][1][1][2]
      c == values[1][1][1][1][1][2]
      d == values[1][1][1][1][2]
      e == values[1][1][1][2]
      f == values[1][1][2]
      g == values[1][2]
      h == values[2]
  IN Invoke(st, morphism, <<a, b, c, d, e, f, g, h>>)

\* mutant: the last two arguments change places
Dollar9_swapped(st, morphism, values) ==
  LET a == values[1][1][1][1][1][1][1][1]
      b == values[1][1][1][1][1][1][1][2]
      c == values[1][1][1][1][1][1][2]
      d == values[1][1][1][1][1][2]
      e == values[1][1][1][1][2]
      f == values[1][1][1][2]
      g == values[1][1][2]
      h == values[1][2]
      i == values[2]
  IN Invoke(st, morphism, <<a, b, c, d, e, f, g, i, h>>)

Dollar9(st, morphism, values) ==
  LET a == values[1][1][1][1][1][1][1][1]
      b == values[1][1][1][1][1][1][1][2]
      c == values[1][1][1][1][1][1][2]
      d == values[1][1][1][1][1][2]
      e == values[1][1][1][1][2]
      f == values[1][1][1][2]
      g == values[1][1][2]
      h == values[1][2]
      i == values[2]
  IN Invoke(st, morphism, <<a, b, c, d, e, f, g, h, i>>)

\* a function, as a value: the adapter $n(morphism) before it is applied
Function(n) == [t |-> "function", v |-> n]

\* $n(morphism): the inner arrow function is returned, nothing is called
DollarBuild(n, st, morphism) == Return(st, Function(n))

\* $n, by its name
Dollar(n, st, morphism, values) ==
  CASE n = 2 -> Dollar2(st, morphism, values)
    [] n = 3 -> Dollar3(st, morphism, values)
    [] n = 4 -> Dollar4(st, morphism, values)
    [] n = 5 -> Dollar5(st, morphism, values)
    [] n = 6 -> Dollar6(st, morphism, values)
    [] n = 7 -> Dollar7(st, morphism, values)
    [] n = 8 -> Dollar8(st, morphism, values)
    [] n = 9 -> Dollar9(st, morphism, values)

\* export { $2, $3, $4, $5, $6, $7, $8, $9 }
Exported == MinArity..MaxArity

\* a name the module does not export resolves to nothing: the reference fails
ReferenceError(n) ==
  [cls |-> "ReferenceError", name |-> "ReferenceError",
   message |-> "no adapter of this arity", protos |-> {"ReferenceError", "Error"}]

\* $n(morphism)(values), $n being looked up among the exports
DollarOf(n, st, morphism, values) ==
  IF n \in Exported THEN Dollar(n, st, morphism, values)
                    ELSE Throw(st, ReferenceError(n))

\* the left-nested pair of a1 .. an: [a1, a2], [[a1, a2], a3], ...
RECURSIVE Nested(_)

Nested(args) ==
  IF Len(args) = 2 THEN <<args[1], args[2]>>
  ELSE <<Nested(SubSeq(args, 1, Len(args) - 1)), args[Len(args)]>>

\* --------------------------------------------------- structural equality
\* expect(x).toStrictEqual(y): same class and equal own properties, or the
\* same primitive; objects hold references to older objects only.
RECURSIVE StrictEqual(_, _, _)

StrictEqual(h, x, y) ==
  IF x.t = "ref" /\ y.t = "ref"
  THEN \/ x.v = y.v
       \/ LET ox == h[x.v]
              oy == h[y.v]
          IN /\ ox.mod = oy.mod
             /\ ox.cls = oy.cls
             /\ StrictEqual(h, ox.some, oy.some)
             /\ StrictEqual(h, ox.isSome, oy.isSome)
             /\ StrictEqual(h, ox.isNone, oy.isNone)
             /\ StrictEqual(h, ox.value, oy.value)
  ELSE x = y

IsResultObject(o) == o.mod = "result.ts"

\* toStrictEqual on values that may be Results
RECURSIVE ResultEqual(_, _, _)

ResultEqual(h, x, y) ==
  IF x.t = "ref" /\ y.t = "ref"
  THEN LET ox == h[x.v]
           oy == h[y.v]
       IN IF IsResultObject(ox) /\ IsResultObject(oy)
          THEN \/ x.v = y.v
               \/ /\ ox.cls = oy.cls
                  /\ ox.isSuccess = oy.isSuccess
                  /\ ox.isFailure = oy.isFailure
                  /\ ResultEqual(h, ox.value, oy.value)
                  /\ ResultEqual(h, ox.error, oy.error)
          ELSE /\ ~IsResultObject(ox)
               /\ ~IsResultObject(oy)
               /\ StrictEqual(h, x, y)
  ELSE x = y

\* ------------------------------------------------------------ the client
\* mod   : the module the client imported some / none from
\* heap  : the objects built so far (the modules' none instances first)
\* cur   : the Option the method chain has reached
\* last  : the call just made: receiver, arguments, outcome and the callbacks
\*         the library invoked during it;  prev : the call before it
\* steps : the number of calls made
InputValues == {Num(n) : n \in 0..MaxNum} \cup {Null, Undefined}

Morphisms == {Fn("id"), Fn("double"), Fn("constNull"), Fn("some"), Fn("constNone")}

Arrows == {Fn("some"), Fn("constNone"), Fn("ifNumber")}

\* the arrows a client of module m has: part_001 also exports optionPredicate
ArrowsOf(m) == Arrows \cup (IF m = "part_001" THEN OptionPredicates ELSE {})

Thunks == {Fn("zero"), Fn("constNull")}

Observers == {Fn("noop")}

Defaults == {Null, Num(MaxNum)}

Messages == {"", "value should exist"}

ChainOps == {"map", "flatMap", "filter", "tap", "forEach", "tapNone"}

ExtractOps == {"safeExtract", "safeExtractThunk", "unsafeExtract"}

NaryFunctions == {Fn("last"), Fn("weighted")}

\* applied : the adapter application made last
NoApply ==
  [n |-> 0, fn |-> NoFn, args |-> <<>>, ret |-> Absent, thrown |-> NoError,
   calls |-> <<>>]

NoCall ==
  [op |-> "load", fn |-> NoFn, arg |-> Absent, message |-> "", recv |-> Absent,
   ret |-> Absent, thrown |-> NoError, calls |-> <<>>]

Enter == [mod |-> mod, heap |-> heap, calls |-> <<>>, ret |-> Absent,
          thrown |-> NoError]

\* the call returns (or throws) to the client, which goes on with the result
Finish(op, fn, arg, message, recv, res) ==
  /\ steps < MaxSteps
  /\ steps' = steps + 1
  /\ heap' = res.heap
  /\ cur' = IF op \in ChainOps \cup {"some", "none"} THEN res.ret ELSE cur
  /\ prev' = last
  /\ last' = [op |-> op, fn |-> fn, arg |-> arg, message |-> message,
              recv |-> recv, ret |-> res.ret, thrown |-> res.thrown,
              calls |-> res.calls]
  /\ UNCHANGED <<mod, applied>>

Init ==
  /\ mod \in ModuleSet
  /\ heap = LoadedHeap
  /\ cur = none(mod)
  /\ last = NoCall
  /\ prev = NoCall
  /\ steps = 0
  /\ applied = NoApply

\* some(a), a being a plain value, none, or the Option at hand
NewSome ==
  \E a \in InputValues \cup {none(mod), cur} :
    Finish("some", NoFn, a, "", Absent, some(Enter, a))

UseNone == Finish("none", NoFn, Absent, "", Absent, Return(Enter, none(mod)))

Map ==
  \E f \in Morphisms :
    /\ "map" \in Methods(heap[cur.v])
    /\ Finish("map", f, Absent, "", cur, map(Enter, cur, f))

FlatMap ==
  \E f \in ArrowsOf(mod) :
    /\ "flatMap" \in Methods(heap[cur.v])
    /\ Finish("flatMap", f, Absent, "", cur, flatMap(Enter, cur, f))

Filter ==
  \E p \in Predicates :
    /\ "filter" \in Methods(heap[cur.v])
    /\ Finish("filter", p, Absent, "", cur, filter(Enter, cur, p))

SafeExtract ==
  \E d \in Defaults :
    /\ "safeExtract" \in Methods(heap[cur.v])
    /\ Finish("safeExtract", NoFn, d, "", cur, safeExtract(Enter, cur, d))

SafeExtractThunk ==
  \E f \in Thunks :
    /\ "safeExtractThunk" \in Methods(heap[cur.v])
    /\ Finish("safeExtractThunk", f, Absent, "", cur,
              safeExtractThunk(Enter, cur, f))

UnsafeExtract ==
  \E m \in Messages :
    /\ "unsafeExtract" \in Methods(heap[cur.v])
    /\ Finish("unsafeExtract", NoFn, Absent, m, cur, unsafeExtract(Enter, cur, m))

Tap ==
  \E cb \in Observers :
    /\ "tap" \in Methods(heap[cur.v])
    /\ Finish("tap", cb, Absent, "", cur, OptionMethods_tap(Enter, cur, cb))

ForEach ==
  \E cb \in Observers :
    /\ "forEach" \in Methods(heap[cur.v])
    /\ Finish("forEach", cb, Absent, "", cur, OptionMethods_forEach(Enter, cur, cb))

TapNone ==
  \E cb \in Observers :
    /\ "tapNone" \in Methods(heap[cur.v])
    /\ Finish("tapNone", cb, Absent, "", cur, OptionMethods_tapNone(Enter, cur, cb))

Next ==
  \/ NewSome
  \/ UseNone
  \/ Map
  \/ FlatMap
  \/ Filter
  \/ SafeExtract
  \/ SafeExtractThunk
  \/ UnsafeExtract
  \/ Tap
  \/ ForEach
  \/ TapNone

Spec == Init /\ [][Next]_vars

\* $n(f)(nested(a1 .. an)), the arguments being distinct numbers in order
Apply ==
  \E n \in MinArity..MaxArity, f \in NaryFunctions :
    LET args == [i \in 1..n |-> Num(i)]
        res == Dollar(n, Enter, f, Nested(args))
    IN /\ steps < MaxSteps
       /\ steps' = steps + 1
       /\ applied' = [n |-> n, fn |-> f, args |-> args, ret |-> res.ret,
                      thrown |-> res.thrown, calls |-> res.calls]
       /\ heap' = res.heap
       /\ UNCHANGED <<mod, cur, last, prev>>

NextAll ==
  \/ Next
  \/ Apply

\* the client of Option that also applies the adapters
SpecAll == Init /\ [][NextAll]_vars

\* ----------------------------------------------- the client of $2 .. $9
\* the arguments a1 .. an: distinct numbers in order, one of them (the k-th,
\* if any) replaced by null
ArgumentsOf(n, k) == [i \in 1..n |-> IF i = k THEN Null ELSE Num(i)]

\* $n(f): the adapter is built and kept; nothing is applied yet
Build ==
  \E n \in Exported, f \in NaryFunctions :
    LET res == DollarBuild(n, Enter, f)
    IN /\ steps < MaxSteps
       /\ steps' = steps + 1
       /\ applied' = [n |-> n, fn |-> f, args |-> <<>>, ret |-> res.ret,
                      thrown |-> res.thrown, calls |-> res.calls]
       /\ heap' = res.heap
       /\ UNCHANGED <<mod, cur, last, prev>>

\* the adapter built last is applied to nested(a1 .. an)
ApplyBuilt ==
  \E k \in 0..applied.n :
    LET args == ArgumentsOf(applied.n, k)
        res == Dollar(applied.n, Enter, applied.fn, Nested(args))
    IN /\ applied.n \in Exported
       /\ steps < MaxSteps
       /\ steps' = steps + 1
       /\ applied' = [n |-> applied.n, fn |-> applied.fn, args |-> args,
                      ret |-> res.ret, thrown |-> res.thrown,
                      calls |-> res.calls]
       /\ heap' = res.heap
       /\ UNCHANGED <<mod, cur, last, prev>>

NextAdapters ==
  \/ Build
  \/ ApplyBuilt

SpecAdapters == Init /\ [][NextAdapters]_vars

\* ------------------------------------------------- the client of Result
ResultMorphisms == {Fn("id"), Fn("double"), Fn("constNull")}

IsResult(h, x) == x.t = "ref" /\ IsResultObject(h[x.v])

FinishResult(op, fn, arg, recv, res) ==
  /\ steps < MaxSteps
  /\ steps' = steps + 1
  /\ heap' = res.heap
  /\ cur' = res.ret
  /\ prev' = last
  /\ last' = [op |-> op, fn |-> fn, arg |-> arg, message |-> "",
              recv |-> recv, ret |-> res.ret, thrown |-> res.thrown,
              calls |-> res.calls]
  /\ UNCHANGED <<mod, applied>>

\* success(a), a being a plain value or the value at hand
NewSuccess ==
  \E a \in InputValues \cup {cur} :
    FinishResult("success", NoFn, a, Absent, success(Enter, a))

NewFailure ==
  \E e \in InputValues \cup {cur} :
    FinishResult("failure", NoFn, e, Absent, failure(Enter, e))

ResultMap ==
  \E f \in ResultMorphisms :
    /\ IsResult(heap, cur)
    /\ FinishResult("result.map", f, Absent, cur, Result_map(Enter, cur, f))

NextResult ==
  \/ NewSuccess
  \/ NewFailure
  \/ ResultMap

SpecResult == Init /\ [][NextResult]_vars

\* ====================================================================
\* Properties
\* ====================================================================
IsSome(h, x) == x.t = "ref" /\ h[x.v].cls = "Some"

IsNone(h, x) == x.t = "ref" /\ h[x.v].cls = "None"

\* the one callback invocation [fn(args)]
Once(fn, args) == <<[fn |-> fn, args |-> args]>>

\* the invocations of fn among the recorded ones
CallsOf(calls, fn) == SelectSeq(calls, LAMBDA c : c.fn = fn)

\* C1: unsafeExtract(msg) returns the payload of a Some without raising; on
\* None it returns nothing and raises an OptionExtractError whose name is
\* "OptionExtractError" and whose message is msg, the empty string included.
C1_UnsafeExtract ==
  last.op = "unsafeExtract" =>
    IF IsSome(heap, last.recv)
    THEN /\ last.thrown = NoError
         /\ last.ret = heap[last.recv.v].value
    ELSE /\ last.ret = Absent
         /\ InstanceOf(last.thrown, "OptionExtractError")
         /\ last.thrown.name = "OptionExtractError"
         /\ last.thrown.message = last.message

C1_Witness ==
  /\ last.op = "unsafeExtract"
  /\ IsNone(heap, last.recv)
  /\ last.message = ""
  /\ last.thrown.cls = "OptionExtractError"
  /\ last.thrown.message = ""

\* C2: the only error is unsafeExtract on None: no other call on an Option
\* (map, flatMap, filter, safeExtract, safeExtractThunk, tap, forEach, tapNone,
\* unsafeExtract on a Some) and no application of $2 .. $9 to a nested pair
\* raises, after any sequence of calls.
C2_OnlyUnsafeExtractRaises ==
  /\ last.thrown # NoError =>
       (last.op = "unsafeExtract" /\ IsNone(heap, last.recv))
  /\ prev.thrown # NoError =>
       (prev.op = "unsafeExtract" /\ IsNone(heap, prev.recv))
  /\ applied.thrown = NoError

C2_Witness ==
  /\ prev.op = "unsafeExtract"
  /\ prev.thrown # NoError
  /\ last.op = "safeExtract"
  /\ IsNone(heap, last.recv)
  /\ last.ret = Null
  /\ last.thrown = NoError
  /\ applied.n = MaxArity
  /\ applied.fn = Fn("weighted")
  /\ applied.ret # Absent

\* C3: some(a).map(f) is a Some whose payload is f(a), f being invoked
\* exactly once, with a.
C3_SomeMap ==
  (last.op = "map" /\ IsSome(heap, last.recv)) =>
    LET a == heap[last.recv.v].value
        fa == Call(Enter, last.fn, <<a>>)
    IN /\ IsSome(heap, last.ret)
       /\ last.calls = Once(last.fn, <<a>>)
       /\ StrictEqual(fa.heap, heap[last.ret.v].value, fa.ret)

C3_Witness ==
  /\ last.op = "map"
  /\ last.fn = Fn("double")
  /\ IsSome(heap, last.recv)
  /\ heap[last.recv.v].value = Num(1)
  /\ heap[last.ret.v].value = Num(2)

\* C4: None is absorbing: a step of the chain (map, flatMap, filter, tap,
\* forEach, tapNone) taken on None ends on None, and map, flatMap, filter and
\* forEach invoke no callback on it.
C4_NoneAbsorbing ==
  [][(last'.op \in ChainOps /\ IsNone(heap, cur)) =>
       /\ IsNone(heap', cur')
       /\ last'.op \in {"map", "flatMap", "filter", "forEach"} =>
            last'.calls = <<>>]_vars

C4_Witness ==
  /\ prev.op = "filter"
  /\ IsSome(heap, prev.recv)
  /\ IsNone(heap, prev.ret)
  /\ last.op = "flatMap"
  /\ last.fn = Fn("some")
  /\ IsNone(heap, last.ret)

\* C5: left identity: some(a).flatMap(f) is f(a), returned as it is, and f is
\* invoked exactly once, with a.
C5_LeftIdentity ==
  (last.op = "flatMap" /\ IsSome(heap, last.recv)) =>
    LET a == heap[last.recv.v].value
        fa == Call(Enter, last.fn, <<a>>)
    IN /\ CallsOf(last.calls, last.fn) = Once(last.fn, <<a>>)
       /\ StrictEqual(fa.heap, last.ret, fa.ret)

C5_Witness ==
  /\ last.op = "flatMap"
  /\ last.fn = Fn("ifNumber")
  /\ IsSome(heap, last.recv)
  /\ IsSome(heap, last.ret)
  /\ last.ret # last.recv

\* C6: right identity: m.flatMap(some) is structurally equal to m, for Some
\* and for None.
C6_RightIdentity ==
  (last.op = "flatMap" /\ last.fn = Fn("some")) =>
    StrictEqual(heap, last.ret, last.recv)

C6_Witness ==
  /\ last.op = "flatMap"
  /\ last.fn = Fn("some")
  /\ IsSome(heap, last.recv)
  /\ last.ret # last.recv

\* C7: associativity: m.flatMap(f).flatMap(g) is structurally equal to
\* m.flatMap(x => f(x).flatMap(g)).
C7_Associativity ==
  (prev.op = "flatMap" /\ last.op = "flatMap") =>
    LET r == flatMap(Enter, prev.recv, Kleisli(prev.fn, last.fn))
    IN StrictEqual(r.heap, last.ret, r.ret)

C7_Witness ==
  /\ prev.op = "flatMap"
  /\ last.op = "flatMap"
  /\ IsSome(heap, prev.recv)
  /\ IsSome(heap, prev.ret)
  /\ IsSome(heap, last.ret)
  /\ last.ret # prev.ret

\* C8: functor identity: m.map(x => x) is structurally equal to m, for Some
\* and for None.
C8_FunctorIdentity ==
  (last.op = "map" /\ last.fn = Fn("id")) =>
    StrictEqual(heap, last.ret, last.recv)

C8_Witness ==
  /\ last.op = "map"
  /\ last.fn = Fn("id")
  /\ IsSome(heap, last.recv)
  /\ last.ret # last.recv

\* C9: functor composition: m.map(f).map(g) is structurally equal to
\* m.map(x => g(f(x))), for Some and for None, whatever f returns.
C9_FunctorComposition ==
  (prev.op = "map" /\ last.op = "map") =>
    LET r == map(Enter, prev.recv, Compose(prev.fn, last.fn))
    IN StrictEqual(r.heap, last.ret, r.ret)

C9_Witness ==
  /\ prev.op = "map"
  /\ prev.fn = Fn("constNone")
  /\ last.op = "map"
  /\ last.fn = Fn("some")
  /\ IsSome(heap, prev.recv)
  /\ IsSome(heap, last.ret)

\* C10: filter(p) on a Some invokes p exactly once, with the payload, and
\* returns the receiver itself when p holds and none when it does not.
C10_SomeFilter ==
  (last.op = "filter" /\ IsSome(heap, last.recv)) =>
    LET a == heap[last.recv.v].value
        pa == Call(Enter, last.fn, <<a>>)
    IN /\ last.calls = Once(last.fn, <<a>>)
       /\ last.ret = IF Truthy(pa.ret) THEN last.recv
                                       ELSE none(heap[last.recv.v].mod)

C10_Witness ==
  /\ prev.op = "filter"
  /\ prev.fn = Fn("isNumber")
  /\ IsSome(heap, prev.recv)
  /\ prev.ret = prev.recv
  /\ last.op = "filter"
  /\ last.fn = Fn("never")
  /\ last.recv = prev.recv
  /\ IsNone(heap, last.ret)

\* C11: filter distributivity: m.filter(p).filter(q) is structurally equal
\* to m.filter(x => p(x) && q(x)).
C11_FilterDistributivity ==
  (prev.op = "filter" /\ last.op = "filter") =>
    LET r == filter(Enter, prev.recv, Conj(prev.fn, last.fn))
    IN StrictEqual(r.heap, last.ret, r.ret)

C11_Witness ==
  /\ prev.op = "filter"
  /\ prev.fn = Fn("isNumber")
  /\ IsSome(heap, prev.recv)
  /\ IsSome(heap, prev.ret)
  /\ last.op = "filter"
  /\ last.fn = Fn("never")
  /\ IsNone(heap, last.ret)

\* C12: filter is idempotent: m.filter(p).filter(p) is structurally equal to
\* m.filter(p).
C12_FilterIdempotent ==
  (prev.op = "filter" /\ last.op = "filter" /\ last.fn = prev.fn) =>
    StrictEqual(heap, last.ret, prev.ret)

C12_Witness ==
  /\ prev.op = "filter"
  /\ prev.fn = Fn("isNumber")
  /\ IsSome(heap, prev.ret)
  /\ last.op = "filter"
  /\ last.fn = Fn("isNumber")
  /\ IsSome(heap, last.ret)

\* C13: filter identity input: m.filter(() => true) is structurally equal to
\* m, for Some and for None.
C13_FilterIdentityInput ==
  (last.op = "filter" /\ last.fn = Fn("always")) =>
    StrictEqual(heap, last.ret, last.recv)

C13_Witness ==
  /\ last.op = "filter"
  /\ last.fn = Fn("always")
  /\ IsSome(heap, last.recv)
  /\ heap[last.recv.v].value = Null
  /\ last.ret = last.recv

\* C14: filter annihilation: m.filter(() => false) equals none, for Some and
\* for None.
C14_FilterAnnihilation ==
  (last.op = "filter" /\ last.fn = Fn("never")) =>
    /\ IsNone(heap, last.ret)
    /\ StrictEqual(heap, last.ret, none(heap[last.recv.v].mod))

C14_Witness ==
  /\ last.op = "filter"
  /\ last.fn = Fn("never")
  /\ IsSome(heap, last.recv)
  /\ IsNone(heap, last.ret)

\* C15: safeExtract: some(a).safeExtract(b) is a, also when a is null or
\* undefined; none.safeExtract(a) is a; nothing is raised.
C15_SafeExtract ==
  last.op = "safeExtract" =>
    /\ last.thrown = NoError
    /\ last.ret = IF IsSome(heap, last.recv) THEN heap[last.recv.v].value
                                             ELSE last.arg

C15_Witness ==
  /\ last.op = "safeExtract"
  /\ IsSome(heap, last.recv)
  /\ heap[last.recv.v].value = Undefined
  /\ last.arg = Num(MaxNum)
  /\ last.ret = Undefined

\* C16: safeExtractThunk: on a Some the payload is returned and the thunk is
\* never invoked; on None the thunk is invoked exactly once, with no
\* argument, and its result is returned.
C16_SafeExtractThunk ==
  last.op = "safeExtractThunk" =>
    IF IsSome(heap, last.recv)
    THEN /\ last.calls = <<>>
         /\ last.ret = heap[last.recv.v].value
    ELSE /\ last.calls = Once(last.fn, <<>>)
         /\ last.ret = Call(Enter, last.fn, <<>>).ret

C16_Witness ==
  /\ prev.op = "safeExtractThunk"
  /\ IsNone(heap, prev.recv)
  /\ prev.fn = Fn("zero")
  /\ prev.ret = Num(0)
  /\ last.op = "safeExtractThunk"
  /\ last.fn = Fn("constNull")
  /\ last.ret = Null

\* C17: m.tap(cb) invokes cb exactly once, with m itself, and returns m, which
\* is left as it was.
C17_Tap ==
  [][last'.op = "tap" =>
       /\ last'.calls = Once(last'.fn, <<cur>>)
       /\ last'.recv = cur
       /\ last'.ret = cur
       /\ cur' = cur
       /\ heap'[cur.v] = heap[cur.v]]_vars

C17_Witness ==
  /\ prev.op = "some"
  /\ last.op = "tap"
  /\ IsSome(heap, last.recv)
  /\ last.calls = Once(Fn("noop"), <<last.recv>>)

\* C18: some(a).forEach(cb) invokes cb exactly once, with a; none.forEach(cb)
\* never invokes cb; both return the receiver, which is left as it was.
C18_ForEach ==
  [][last'.op = "forEach" =>
       /\ last'.calls = IF IsSome(heap, cur)
                        THEN Once(last'.fn, <<heap[cur.v].value>>)
                        ELSE <<>>
       /\ last'.ret = cur
       /\ cur' = cur
       /\ heap'[cur.v] = heap[cur.v]]_vars

C18_Witness ==
  /\ prev.op = "some"
  /\ last.op = "forEach"
  /\ IsSome(heap, last.recv)
  /\ last.calls = Once(Fn("noop"), <<Null>>)
  /\ last.ret = last.recv

\* C19: none.tapNone(cb) invokes cb exactly once, with no argument;
\* some(a).tapNone(cb) never invokes cb; both return the receiver, which is
\* left as it was.
C19_TapNone ==
  [][last'.op = "tapNone" =>
       /\ last'.calls = IF IsNone(heap, cur) THEN Once(last'.fn, <<>>)
                                             ELSE <<>>
       /\ last'.ret = cur
       /\ cur' = cur
       /\ heap'[cur.v] = heap[cur.v]]_vars

C19_Witness ==
  /\ prev.op = "filter"
  /\ IsSome(heap, prev.recv)
  /\ last.op = "tapNone"
  /\ IsNone(heap, last.recv)
  /\ last.calls = Once(Fn("noop"), <<>>)
  /\ last.ret = last.recv

\* C20: every Option built so far carries exactly one true flag: isSome is
\* true and isNone false on a Some, isNone true and isSome false on a None
\* (errors.ts, option.ts); part_001 declares the single flag `some` instead,
\* true exactly on a Some.
C20_ExactlyOneTag ==
  \A i \in DOMAIN heap :
    LET o == heap[i] IN
    IF o.mod = "part_001"
    THEN o.some = Bool(o.cls = "Some")
    ELSE /\ o.isSome = Bool(o.cls = "Some")
         /\ o.isNone = Bool(o.cls = "None")
         /\ Truthy(o.isSome) # Truthy(o.isNone)

C20_Witness ==
  /\ mod = "option.ts"
  /\ prev.op = "map"
  /\ IsSome(heap, prev.ret)
  /\ last.op = "filter"
  /\ IsNone(heap, last.ret)
  /\ Len(heap) > Len(LoadedHeap) + 1

\* C21: Options are immutable: no call (map, flatMap, filter, safeExtract,
\* safeExtractThunk, unsafeExtract that returns or raises, tap, forEach,
\* tapNone, some) changes the variant, the flags or the payload of an Option
\* built before it; the heap only grows.
C21_Immutable ==
  [][/\ Len(heap') >= Len(heap)
     /\ \A i \in DOMAIN heap : heap'[i] = heap[i]]_vars

C21_Witness ==
  /\ mod = "errors.ts"
  /\ prev.op = "filter"
  /\ prev.fn = Fn("never")
  /\ IsSome(heap, prev.recv)
  /\ heap[prev.recv.v] = Some_errors(Num(1))
  /\ last.op = "unsafeExtract"
  /\ last.thrown # NoError

\* C22: Result.map transforms the success payload only: m.map(x => x) is
\* structurally equal to m; success(a).map(f) is a Success of f(a), f being
\* invoked once with a; failure(e).map(f) is the same Failure, its error
\* unchanged, and f is not invoked.
C22_ResultMap ==
  last.op = "result.map" =>
    LET m == heap[last.recv.v]
        r == heap[last.ret.v]
    IN /\ last.fn = Fn("id") => ResultEqual(heap, last.ret, last.recv)
       /\ IF m.cls = "Success"
          THEN LET fa == Call(Enter, last.fn, <<m.value>>)
               IN /\ last.calls = Once(last.fn, <<m.value>>)
                  /\ r.cls = "Success"
                  /\ ResultEqual(fa.heap, r.value, fa.ret)
          ELSE /\ last.calls = <<>>
               /\ r.cls = "Failure"
               /\ r.error = m.error
               /\ ResultEqual(heap, last.ret, last.recv)

C22_Witness ==
  /\ prev.op = "failure"
  /\ prev.arg = Num(1)
  /\ last.op = "result.map"
  /\ last.fn = Fn("double")
  /\ last.recv = prev.ret
  /\ last.ret = last.recv
  /\ last.calls = <<>>
  /\ heap[last.ret.v] = Failure_result(Num(1))

\* C23: for n in 2..9, $n(f) applied to the left-nested pair of a1 .. an
\* invokes f exactly once, with a1 .. an in their order, and returns what f
\* returns; building $n(f) invokes nothing.
C23_AdapterApplies ==
  /\ (applied.n # 0 /\ applied.args = <<>>) =>
       /\ applied.calls = <<>>
       /\ applied.ret = Function(applied.n)
  /\ applied.args # <<>> =>
       LET r == Call(Enter, applied.fn, applied.args)
       IN /\ Len(applied.args) = applied.n
          /\ applied.calls = Once(applied.fn, applied.args)
          /\ applied.thrown = NoError
          /\ applied.ret = r.ret

C23_Witness ==
  /\ applied.n = MaxArity
  /\ applied.fn = Fn("weighted")
  /\ applied.args = ArgumentsOf(MaxArity, 0)
  /\ applied.calls = Once(Fn("weighted"), ArgumentsOf(MaxArity, 0))
  /\ applied.ret = Num(285)

\* the other side of the recurrence: $(n-1) given f with its last argument
\* bound to an, applied to nested(a1 .. a(n-1)) (to a1 alone when n = 2)
Below(n, f, args) ==
  DollarOf(n - 1, Enter, BindLast(f, args[n]),
           IF n = 2 THEN <<args[1]>> ELSE Nested(SubSeq(args, 1, n - 1)))

\* C24: each adapter commutes with the one below it: for n in 3..9,
\* $n(f)(nested(a1 .. an)) equals
\* $(n-1)((x1 .. x(n-1)) => f(x1 .. x(n-1), an))(nested(a1 .. a(n-1))).
C24_CommutesWithPrevious ==
  (applied.args # <<>> /\ applied.n \in 3..MaxArity) =>
    LET r == Below(applied.n, applied.fn, applied.args)
    IN /\ r.thrown = NoError
       /\ StrictEqual(r.heap, applied.ret, r.ret)

C24_Witness ==
  /\ applied.n = 4
  /\ applied.fn = Fn("weighted")
  /\ applied.args = ArgumentsOf(4, 2)
  /\ applied.ret = Num(26)
  /\ Below(4, Fn("weighted"), ArgumentsOf(4, 2)).ret = Num(26)

\* C25 as stated: the recurrence holds for every n in 2..9, n = 2 included,
\* the right-hand side then being the adapter for a single argument.
C25_RecurrenceFrom2 ==
  (applied.args # <<>> /\ applied.n \in MinArity..MaxArity) =>
    LET r == Below(applied.n, applied.fn, applied.args)
    IN /\ r.thrown = NoError
       /\ StrictEqual(r.heap, applied.ret, r.ret)

\* C25, amended: at n = 2 there is no adapter below ($2 is the first one
\* exported): $2(f)([a1, a2]) is f(a1, a2) and the right-hand side does not
\* evaluate; from n = 3 to 9 the recurrence holds, f being invoked once with
\* the same arguments on both sides.
C25_RecurrenceFrom3 ==
  applied.args # <<>> =>
    LET r == Below(applied.n, applied.fn, applied.args)
        direct == Call(Enter, applied.fn, applied.args)
    IN IF applied.n = MinArity
       THEN /\ r.thrown # NoError
            /\ r.ret = Absent
            /\ applied.ret = direct.ret
       ELSE /\ r.thrown = NoError
            /\ r.ret = applied.ret
            /\ Len(r.calls) = Len(applied.calls)

C25_Witness ==
  /\ applied.n = MinArity
  /\ applied.fn = Fn("last")
  /\ applied.args = ArgumentsOf(MinArity, 1)
  /\ applied.ret = Num(2)
  /\ Below(MinArity, Fn("last"), ArgumentsOf(MinArity, 1)).thrown # NoError

\* C26: optionPredicate commutes with flatMap: some(a).flatMap(
\* optionPredicate(p)) is a Some exactly when p(a) is true (its flag `some`
\* equals p(a)), and its payload is then a.
C26_OptionPredicateFlatMap ==
  (last.op = "flatMap" /\ last.fn \in OptionPredicates
     /\ IsSome(heap, last.recv)) =>
    LET a == heap[last.recv.v].value
        pa == Call(Enter, PredicateOf(last.fn), <<a>>).ret
    IN /\ heap[last.ret.v].some = pa
       /\ IsSome(heap, last.ret) <=> Truthy(pa)
       /\ Truthy(pa) => heap[last.ret.v].value = a

C26_Witness ==
  /\ prev.op = "flatMap"
  /\ prev.fn = OptionPredicate(Fn("isNumber"))
  /\ IsSome(heap, prev.recv)
  /\ heap[prev.recv.v].value = Num(0)
  /\ heap[prev.ret.v] = Some_part1(Num(0))
  /\ last.op = "flatMap"
  /\ last.fn = OptionPredicate(Fn("never"))
  /\ last.ret = none("part_001")

\* C27: there is one None (per module loaded: the `none` it builds when it is
\* loaded): no call allocates another, and every absent Option the client
\* holds or was returned (by none, map, flatMap or filter, on any receiver)
\* is the none of the module it imported, so any two are identical.
C27_SingleNone ==
  /\ \A i \in DOMAIN heap :
       heap[i].cls = "None" => Ref(i) = none(heap[i].mod)
  /\ \A x \in {cur, last.ret, prev.ret} :
       IsNone(heap, x) => x = none(mod)

C27_Witness ==
  /\ mod = "option.ts"
  /\ prev.op = "filter"
  /\ IsSome(heap, prev.recv)
  /\ prev.ret = none("option.ts")
  /\ last.op = "map"
  /\ last.fn = Fn("some")
  /\ last.recv = prev.ret
  /\ last.ret = prev.ret
  /\ Len(heap) = Len(LoadedHeap) + 1

\* ---- the same client on another of the bundled modules
\* the methods the three modules share, and the two constructors
SharedOps ==
  {"some", "none", "map", "flatMap", "filter", "safeExtract",
   "safeExtractThunk", "unsafeExtract"}

\* what a value of a client of module m1 is for a client of module m2: the
\* same, none being the none of m2
InModule(x, m1, m2) == IF x = none(m1) THEN none(m2) ELSE x

\* the heap of the same client, had it imported m2 instead of m1
HeapInModule(h, m1, m2) ==
  [i \in DOMAIN h |->
     IF i <= Len(LoadedHeap) THEN h[i]
     ELSE CASE m2 = "errors.ts" -> Some_errors(InModule(h[i].value, m1, m2))
            [] m2 = "option.ts" -> Some_option(InModule(h[i].value, m1, m2))
            [] m2 = "part_001" -> Some_part1(InModule(h[i].value, m1, m2))]

CallsInModule(calls, m1, m2) ==
  [k \in DOMAIN calls |->
     [fn |-> calls[k].fn,
      args |-> [j \in DOMAIN calls[k].args |->
                  InModule(calls[k].args[j], m1, m2)]]]

\* the call op made on receiver this
Perform(op, st, this, fn, arg, message) ==
  CASE op = "some" -> some(st, arg)
    [] op = "none" -> Return(st, none(st.mod))
    [] op = "map" -> map(st, this, fn)
    [] op = "flatMap" -> flatMap(st, this, fn)
    [] op = "filter" -> filter(st, this, fn)
    [] op = "safeExtract" -> safeExtract(st, this, arg)
    [] op = "safeExtractThunk" -> safeExtractThunk(st, this, fn)
    [] op = "unsafeExtract" -> unsafeExtract(st, this, message)

\* C28: the three modules are observationally equivalent on what they share:
\* whatever call of the shared surface a client makes (filter where both
\* modules have it, callbacks both clients have), the client of another module
\* making the same call in the same situation gets the same variant and
\* payload, the same callback invocations and the same error, and is left
\* with the same objects; so the same holds along any sequence of calls.
C28_Equivalent ==
  [][(last'.op \in SharedOps /\ last'.fn \notin OptionPredicates) =>
       \A m2 \in ModuleSet :
         (last'.op = "filter" => "filter" \in Methods(LoadedHeap[ModuleIndex(m2)]))
         =>
         LET st2 == [mod |-> m2, heap |-> HeapInModule(heap, mod, m2),
                     calls |-> <<>>, ret |-> Absent, thrown |-> NoError]
             r == Perform(last'.op, st2, InModule(cur, mod, m2), last'.fn,
                          InModule(last'.arg, mod, m2), last'.message)
         IN /\ r.ret = InModule(last'.ret, mod, m2)
            /\ r.thrown = last'.thrown
            /\ r.calls = CallsInModule(last'.calls, mod, m2)
            /\ r.heap = HeapInModule(heap', mod, m2)]_vars

C28_Witness ==
  /\ mod = "part_001"
  /\ prev.op = "flatMap"
  /\ prev.fn = Fn("ifNumber")
  /\ IsSome(heap, prev.recv)
  /\ prev.ret = none("part_001")
  /\ last.op = "unsafeExtract"
  /\ last.thrown = new_OptionExtractError("value should exist")

\* m.flatMap(optionPredicate(p)), for the m and p of the filter just made
ByOptionPredicate == flatMap(Enter, last.recv, OptionPredicate(last.fn))

\* optionPredicate(p)(a), for the a of the some(a) made before that filter
DirectOptionPredicate == optionPredicate(Enter, last.fn, prev.arg)

FilteredSome ==
  /\ prev.op = "some"
  /\ last.op = "filter"
  /\ last.recv = prev.ret

\* same variant and, on a Some, structurally equal payloads
SameOption(h, x, y) ==
  /\ IsSome(h, x) <=> IsSome(h, y)
  /\ IsNone(h, x) <=> IsNone(h, y)
  /\ IsSome(h, x) => StrictEqual(h, h[x.v].value, h[y.v].value)

\* C29 as stated: optionPredicate(p)(a) is structurally equal to
\* some(a).filter(p), and m.flatMap(optionPredicate(p)) to m.filter(p), p
\* being invoked as many times on both sides.
C29_StructurallyEqualToFilter ==
  /\ last.op = "filter" =>
       LET r == ByOptionPredicate
       IN /\ StrictEqual(r.heap, r.ret, last.ret)
          /\ Len(CallsOf(r.calls, last.fn)) = Len(CallsOf(last.calls, last.fn))
  /\ FilteredSome =>
       LET d == DirectOptionPredicate
       IN StrictEqual(d.heap, d.ret, last.ret)

\* C29, amended: the two agree in variant and payload, and in the number of
\* times p is invoked; the objects are of different modules' classes (the
\* Some and none of part_001 with the flag `some`, against those of option.ts
\* or errors.ts with isSome and isNone) and are structurally equal only
\* when m is None.
C29_AgreesWithFilter ==
  /\ last.op = "filter" =>
       LET r == ByOptionPredicate
       IN /\ SameOption(r.heap, r.ret, last.ret)
          /\ Len(CallsOf(r.calls, last.fn)) = Len(CallsOf(last.calls, last.fn))
          /\ IsNone(heap, last.recv) => StrictEqual(r.heap, r.ret, last.ret)
  /\ FilteredSome =>
       LET d == DirectOptionPredicate
       IN /\ SameOption(d.heap, d.ret, last.ret)
          /\ Len(CallsOf(d.calls, last.fn)) = Len(CallsOf(last.calls, last.fn))

C29_Witness ==
  /\ mod = "errors.ts"
  /\ FilteredSome
  /\ prev.arg = Num(0)
  /\ last.fn = Fn("isNumber")
  /\ last.ret = last.recv
  /\ LET r == ByOptionPredicate
     IN /\ r.heap[r.ret.v] = Some_part1(Num(0))
        /\ Len(CallsOf(r.calls, last.fn)) = 1

\* C30: presence is decided by the tag alone: some(a) is a Some with payload
\* a whatever a is (null, undefined and none included), and map on a Some
\* yields a Some whatever the morphism returns: a Some of null, a Some of
\* none, and for some(a).map(some) a Some of a Some of a, not flattened.
C30_TagAlone ==
  /\ last.op = "some" =>
       /\ IsSome(heap, last.ret)
       /\ heap[last.ret.v].value = last.arg
  /\ (last.op = "map" /\ IsSome(heap, last.recv)) =>
       LET a == heap[last.recv.v].value
           b == heap[last.ret.v].value
       IN /\ IsSome(heap, last.ret)
          /\ last.fn = Fn("constNull") => b = Null
          /\ last.fn = Fn("constNone") => b = none(mod)
          /\ last.fn = Fn("some") =>
               /\ IsSome(heap, b)
               /\ heap[b.v].value = a
               /\ b # last.recv

C30_Witness ==
  /\ prev.op = "some"
  /\ prev.arg = Undefined
  /\ IsSome(heap, prev.ret)
  /\ last.op = "map"
  /\ last.fn = Fn("some")
  /\ last.recv = prev.ret
  /\ IsSome(heap, heap[last.ret.v].value)
  /\ heap[heap[last.ret.v].value.v].value = Undefined

====
